---- MODULE Spec2Model ----
(***************************************************************************)
(* The tool-use orchestration loop of AnthropicClient (src/index.ts):      *)
(* the tool registry, the retained conversation history, and the           *)
(* createMessage / handleResponse / handleTool cycle against the endpoint. *)
(*                                                                         *)
(* Granularity.  JavaScript runs each callback to completion and drains    *)
(* the microtask queue before the next event, so one action is one event   *)
(* (a call by the caller, the endpoint's answer, the completion of one     *)
(* handler) together with all the synchronous code and promise reactions   *)
(* it triggers.                                                            *)
(***************************************************************************)
EXTENDS Integers, Sequences, FiniteSets, TLC

(* ------------------------------- bounds -------------------------------- *)

\* endpoint calls per exchange the endpoint is allowed to ask for
MaxCalls == 2
\* turns of retained history a caller may build up by appending
MaxHist == 2

(* ------------------------- values of the program ----------------------- *)

\* AnthropicClient.model and AnthropicClient.maxTokens
model == "claude-3-5-sonnet-20241022"
maxTokens == 1024

Exchanges == {1, 2}
ToolNames == {"getWeather", "getTraffic"}
\* handlers a Tool can be built with
ToolFunctions == {"weatherFunction", "trafficFunction"}
NoFunction == "none"
NoInput == "none"

\* content blocks: TextContent, ToolUse, ToolResult
TextContent(t) == [type |-> "text", text |-> t]
ToolUse(id, name, input) == [type |-> "tool_use", id |-> id, name |-> name, input |-> input]
ToolResult(id, content) == [type |-> "tool_result", tool_use_id |-> id, content |-> content]

\* a turn of AnthropicRequest['messages']
Turn(role, content) == [role |-> role, content |-> content]
UserTurn == Turn("user", <<TextContent("What is the weather like?")>>)
AssistantTurn == Turn("assistant", <<TextContent("Let me check.")>>)
NoTurn == Turn("none", <<>>)

\* the arguments a caller passes to createMessage
CallerMessages == {<<UserTurn>>, <<AssistantTurn>>, <<UserTurn, AssistantTurn>>}

\* the contents of the responses the endpoint gives: no, one and two
\* invocations, with and without text around them
Text == TextContent("It is raining.")
ToolUse1 == ToolUse("toolu_1", "getWeather", "San Francisco")
ToolUse2 == ToolUse("toolu_2", "getTraffic", "Oakland")
ResponseContents ==
    { <<>>, <<Text>>, <<ToolUse2>>, <<Text, ToolUse1>>, <<ToolUse1, ToolUse2>>,
      <<ToolUse2, Text, ToolUse1>> }
\* the longest of them
MaxBlocks == CHOOSE n \in 0..3 : /\ \A c \in ResponseContents : Len(c) <= n
                                /\ \E c \in ResponseContents : Len(c) = n

StopReasons == {"tool_use", "end_turn", "max_tokens"}

AnthropicResponse(stop, content) ==
    [role |-> "assistant", stop_reason |-> stop, content |-> content]
Responses == { AnthropicResponse(s, c) : s \in StopReasons, c \in ResponseContents }
NoResponse == AnthropicResponse("none", <<>>)

\* what a handler returns: a string or a non-string value
StringValue(s) == [type |-> "string", str |-> s, num |-> 0]
NumberValue(n) == [type |-> "number", str |-> "", num |-> n]
HandlerResults == {StringValue("18"), NumberValue(18)}

\* errors: an Error or an AxiosError (message, response.data.error.message)
Undefined == "undefined"
Error(message) == [axios |-> FALSE, message |-> message, responseMessage |-> Undefined]
AxiosError(message, responseMessage) ==
    [axios |-> TRUE, message |-> <<message>>, responseMessage |-> responseMessage]
NoError == Error(<<>>)
\* what a handler throws or rejects with
HandlerErrors == {Error(<<"handler failed">>), AxiosError("timeout of 1000ms exceeded", Undefined)}
\* what axios.post rejects with
PostErrors ==
    { AxiosError("Network Error", Undefined),
      AxiosError("Request failed with status code 529", "Overloaded"),
      AxiosError("Request failed with status code 500", "") }

(* --------------------------- the tool registry ------------------------- *)

\* new Tool(schema, toolFunction)
Tool(name, description, toolFunction) ==
    [schema |-> [name |-> name, description |-> description], toolFunction |-> toolFunction]
\* the tools a caller registers; getWeather comes in two versions
Tools ==
    { Tool("getWeather", "Get the current weather", "weatherFunction"),
      Tool("getTraffic", "Get the current traffic", "trafficFunction"),
      Tool("getWeather", "Get the weather from the traffic service", "trafficFunction") }

NoTool == Tool("none", "none", NoFunction)

\* Tool.getSchema and Tool.getToolFunction
getSchema(tool) == [name |-> tool.schema.name, description |-> tool.schema.description]
getToolFunction(tool) == tool.toolFunction

\* ToolsMap: a Map keeps its entries in insertion order, one per key
MapHas(map, key) == \E i \in 1..Len(map) : map[i].key = key
MapIndex(map, key) == CHOOSE i \in 1..Len(map) : map[i].key = key
MapGet(map, key) == map[MapIndex(map, key)].value
\* a set that keeps the entry already there
MapSetKeepFirst(map, key, value) ==
    IF \E i \in 1..Len(map) : map[i].key = key
    THEN map
    ELSE Append(map, [key |-> key, value |-> value])
MapSet(map, key, value) ==
    IF MapHas(map, key)
    THEN [map EXCEPT ![MapIndex(map, key)] = [key |-> key, value |-> value]]
    ELSE Append(map, [key |-> key, value |-> value])
MapValues(map) == [i \in 1..Len(map) |-> map[i].value]

\* addTool: the registry after this.tools.set(...)
addTool(map, tool) ==
    MapSet(map, tool.schema.name,
           [schema |-> getSchema(tool), toolFunction |-> getToolFunction(tool)])

(* ------------------------------ createMessage -------------------------- *)

\* the reset left out
createMessageHistoryKept(history, msgs) == history \o msgs

\* createMessage, the reset and the append: this.messages after them
createMessageHistory(history, msgs) ==
    LET kept == IF Len(msgs) = 1 /\ msgs[1].role = "user" THEN <<>> ELSE history
    IN  kept \o msgs

\* createMessage, the request it builds
AnthropicRequest(map, history) ==
    [ model |-> model,
      max_tokens |-> maxTokens,
      tools |-> [i \in 1..Len(map) |-> MapValues(map)[i].schema],
      messages |-> history ]
NoRequest == [model |-> "none", max_tokens |-> 0, tools |-> <<>>, messages |-> <<>>]

\* createMessage, the catch block: an AxiosError is replaced, anything else rethrown
catchError(error) ==
    IF error.axios
    THEN LET errorMessage ==
                 IF error.responseMessage \in {Undefined, ""}
                 THEN error.message[1]
                 ELSE error.responseMessage
         IN  Error(<<"Anthropic API error: ", errorMessage>>)
    ELSE error

\* an error thrown under `depth` nested createMessage calls, as the caller gets it
RECURSIVE propagate(_, _)
propagate(error, depth) ==
    IF depth = 0 THEN error ELSE propagate(catchError(error), depth - 1)

(* ------------------------------ handleResponse ------------------------- *)

\* only the first invocation taken
toolUsesOfFirst(response) ==
    LET all == SelectSeq(response.content, LAMBDA c : c.type = "tool_use")
    IN  IF all = <<>> THEN <<>> ELSE <<all[1]>>

\* handleResponse: response.content.filter(content => content.type === 'tool_use')
toolUsesOf(response) == SelectSeq(response.content, LAMBDA c : c.type = "tool_use")

\* JSON.stringify of a non-string handler result
JSONstringify(result) == ToString(result.num)

\* handleResponse: the turn built from one handler result
toolResultTurn(toolUse, result) ==
    Turn("user",
         <<ToolResult(toolUse.id,
                      IF result.type = "string" THEN result.str ELSE JSONstringify(result))>>)

\* an unregistered tool answered with an empty result instead of an error
handleToolLenient(map, toolUse, thrown) ==
    IF ~MapHas(map, toolUse.name)
    THEN [ toolUse |-> toolUse, toolFunction |-> NoFunction, input |-> NoInput,
           status |-> "done", turn |-> Turn("user", <<ToolResult(toolUse.id, Undefined)>>),
           error |-> NoError, completed |-> 0 ]
    ELSE [ toolUse |-> toolUse, toolFunction |-> MapGet(map, toolUse.name).toolFunction,
           input |-> toolUse.input,
           status |-> IF thrown = NoError THEN "running" ELSE "threw",
           turn |-> NoTurn, error |-> thrown, completed |-> 0 ]

\* handleTool: the state of one invocation's promise when the fan-out returns:
\* the handler looked up and the input it was called with, if any. `thrown` is the error the handler throws synchronously, NoError if it
\* returns a pending promise. `completed` is a history field: the rank of the
\* promise among the fulfilled ones of its batch, 0 until it is fulfilled.
handleTool(map, toolUse, thrown) ==
    IF ~MapHas(map, toolUse.name)
    THEN [ toolUse |-> toolUse, toolFunction |-> NoFunction, input |-> NoInput,
           status |-> "unknown", turn |-> NoTurn,
           error |-> Error(<<"Unknown tool: ", toolUse.name>>), completed |-> 0 ]
    ELSE [ toolUse |-> toolUse, toolFunction |-> MapGet(map, toolUse.name).toolFunction,
           input |-> toolUse.input,
           status |-> IF thrown = NoError THEN "running" ELSE "threw",
           turn |-> NoTurn, error |-> thrown, completed |-> 0 ]

\* the invocations taken one after the other, up to the first failed lookup
fanOutUntilUnknown(map, toolUses, thrown) ==
    [i \in 1..Len(toolUses) |->
        IF \E j \in 1..(i - 1) : ~MapHas(map, toolUses[j].name)
        THEN [handleTool(map, toolUses[i], thrown[i]) EXCEPT
                 !.toolFunction = NoFunction, !.input = NoInput, !.status = "notStarted"]
        ELSE handleTool(map, toolUses[i], thrown[i])]

\* handleResponse: the promises toolUses.map(...) returns, in block order
fanOut(map, toolUses, thrown) ==
    [i \in 1..Len(toolUses) |-> handleTool(map, toolUses[i], thrown[i])]

\* the content deciding: final when it holds no tool_use block
isFinalByContent(response) ==
    SelectSeq(response.content, LAMBDA c : c.type = "tool_use") = <<>>

\* only end_turn taken as final
isFinalEndTurn(response) == response.stop_reason = "end_turn"

\* handleResponse: response.stop_reason !== 'tool_use'
isFinal(response) == response.stop_reason # "tool_use"

\* a race: fulfilled when some promise is
anyFulfilled(promises) == \E i \in 1..Len(promises) : promises[i].status = "done"

\* a join that needs at least one promise
allFulfilledSome(promises) ==
    /\ Len(promises) >= 1
    /\ \A i \in 1..Len(promises) : promises[i].status = "done"

\* Promise.all: fulfilled when every promise is
allFulfilled(promises) == \A i \in 1..Len(promises) : promises[i].status = "done"
\* Promise.all: the rejected promises. Those of unregistered tools and of
\* handlers that throw are rejected when the fan-out returns and are observed
\* in block order; a handler that fails later is observed when it fails.
Rejected(promises) ==
    { i \in 1..Len(promises) : promises[i].status \in {"unknown", "threw", "failed"} }
\* Promise.all: rejects with the first rejection
firstRejection(promises) ==
    promises[CHOOSE i \in Rejected(promises) : \A j \in Rejected(promises) : i <= j].error
\* Promise.all: the value it is fulfilled with, in the order of the promises
\* the results in the order the handlers completed in
toolResultsAsCompleted(promises) ==
    [k \in 1..Len(promises) |->
        promises[CHOOSE i \in 1..Len(promises) : promises[i].completed = k].turn]
toolResults(promises) == [i \in 1..Len(promises) |-> promises[i].turn]

(* --------------------------------- state ------------------------------- *)

VARIABLES
    tools,          \* AnthropicClient.tools
    messages,       \* AnthropicClient.messages
    ex,             \* per exchange: the createMessage call chain and what it awaits
    lastRegistered  \* history: per name, the tool of the last addTool call

vars == <<tools, messages, ex, lastRegistered>>

NoResult == [kind |-> "none", response |-> NoResponse, error |-> NoError]
Resolved(response) == [kind |-> "resolved", response |-> response, error |-> NoError]
RejectedWith(error) == [kind |-> "rejected", response |-> NoResponse, error |-> error]

\* an exchange before createMessage is called
Idle ==
    [ pc |-> "idle",            \* idle, awaitPost, awaitTools, resolved, rejected
      calls |-> 0,              \* endpoint calls issued (depth of the call chain)
      request |-> NoRequest,    \* the request of the last axios.post
      response |-> NoResponse,  \* the last response received
      promises |-> <<>>,        \* the promises of the last fan-out
      result |-> NoResult,      \* what the caller's promise settled with
      \* history variables
      responses |-> 0,          \* responses received
      toolUseResponses |-> 0,   \* of which with stop_reason tool_use
      newTurns |-> <<>>,        \* argument of the last createMessage call
      historyBefore |-> <<>>,   \* this.messages when that call was entered
      previousMessages |-> <<>>,  \* messages of the request before the last
      registeredAt |-> [n \in ToolNames |-> NoTool] ]
                                \* lastRegistered when the last response came

Init ==
    /\ tools = <<>>
    /\ messages = <<>>
    /\ ex = [e \in Exchanges |-> Idle]
    /\ lastRegistered = [n \in ToolNames |-> NoTool]

InFlight(e) == ex[e].pc \in {"awaitPost", "awaitTools"}

\* a history kept per call chain instead of on the client
sendOwnHistory(x, msgs) ==
    [x EXCEPT !.pc = "awaitPost",
              !.calls = x.calls + 1,
              !.request = AnthropicRequest(tools, createMessageHistory(x.request.messages, msgs)),
              !.previousMessages = x.request.messages,
              !.newTurns = msgs,
              !.historyBefore = messages]

\* createMessage up to the await of axios.post, entered on call chain x
send(x, msgs) ==
    [x EXCEPT !.pc = "awaitPost",
              !.calls = x.calls + 1,
              !.request = AnthropicRequest(tools, createMessageHistory(messages, msgs)),
              !.previousMessages = x.request.messages,
              !.newTurns = msgs,
              !.historyBefore = messages]

(* -------------------------------- actions ------------------------------ *)

\* llm.addTool(tool)
AddTool(tool) ==
    /\ tools' = addTool(tools, tool)
    /\ lastRegistered' = [lastRegistered EXCEPT ![tool.schema.name] = tool]
    /\ UNCHANGED <<messages, ex>>

\* the caller calls llm.createMessage(msgs)
CreateMessage(e, msgs) ==
    /\ ~InFlight(e)
    /\ Len(createMessageHistory(messages, msgs)) <= MaxHist
    /\ messages' = createMessageHistory(messages, msgs)
    /\ ex' = [ex EXCEPT ![e] = send(Idle, msgs)]
    /\ UNCHANGED <<tools, lastRegistered>>

\* the caller's promise rejects: the catch block of every createMessage of
\* the chain has seen the error
reject(x, error) ==
    [x EXCEPT !.pc = "rejected", !.result = RejectedWith(propagate(error, x.calls))]

\* one request sent per tool result instead of one for all
joinRequestPerResult(x, promises) ==
    LET y == [x EXCEPT !.promises = promises]
        each == [send(y, toolResults(promises)) EXCEPT
                    !.calls = x.calls + IF Len(promises) = 0 THEN 1 ELSE Len(promises)]
    IN  IF Rejected(promises) # {}
        THEN [ x |-> reject(y, firstRejection(promises)), messages |-> messages ]
        ELSE IF allFulfilled(promises)
        THEN [ x |-> each,
               messages |-> createMessageHistory(messages, toolResults(promises)) ]
        ELSE [ x |-> [y EXCEPT !.pc = "awaitTools"], messages |-> messages ]

\* a response without invocations taken as the final answer
joinEmptyResolves(x, promises) ==
    LET y == [x EXCEPT !.promises = promises]
    IN  IF Rejected(promises) # {}
        THEN [ x |-> reject(y, firstRejection(promises)), messages |-> messages ]
        ELSE IF Len(promises) = 0
        THEN [ x |-> [y EXCEPT !.pc = "resolved", !.result = Resolved(y.response)],
               messages |-> messages ]
        ELSE IF allFulfilled(promises)
        THEN [ x |-> send(y, toolResults(promises)),
               messages |-> createMessageHistory(messages, toolResults(promises)) ]
        ELSE [ x |-> [y EXCEPT !.pc = "awaitTools"], messages |-> messages ]

\* handleResponse from `await Promise.all(...)` on: what the call chain x does
\* once its promises are in the given state
join(x, promises) ==
    LET y == [x EXCEPT !.promises = promises]
    IN  IF Rejected(promises) # {}
        THEN [ x |-> reject(y, firstRejection(promises)),
               messages |-> messages ]
        ELSE IF allFulfilled(promises)
        THEN [ x |-> send(y, toolResults(promises)),
               messages |-> createMessageHistory(messages, toolResults(promises)) ]
        ELSE [ x |-> [y EXCEPT !.pc = "awaitTools"],
               messages |-> messages ]

\* handleResponse
handleResponse(x, response, thrown) ==
    LET y == [x EXCEPT !.response = response,
                       !.responses = @ + 1,
                       !.registeredAt = lastRegistered,
                       !.toolUseResponses = IF response.stop_reason = "tool_use"
                                            THEN @ + 1 ELSE @]
    IN  IF isFinal(response)
        THEN [ x |-> [y EXCEPT !.pc = "resolved", !.promises = <<>>,
                               !.result = Resolved(response)],
               messages |-> messages ]
        ELSE join(y, fanOut(tools, toolUsesOf(response), thrown))

\* a failed request sent once more
PostRejectRetries(e, error) ==
    /\ ex[e].pc = "awaitPost"
    /\ ex' = [ex EXCEPT ![e] = IF ex[e].calls = ex[e].responses + 1
                                THEN [ex[e] EXCEPT !.calls = @ + 1]
                                ELSE reject(ex[e], error)]
    /\ UNCHANGED <<tools, messages, lastRegistered>>

\* the history put back to what it was before the failed call
PostRejectRollsBack(e, error) ==
    /\ ex[e].pc = "awaitPost"
    /\ ex' = [ex EXCEPT ![e] = reject(ex[e], error)]
    /\ messages' = ex[e].historyBefore
    /\ UNCHANGED <<tools, lastRegistered>>

\* axios.post rejects
PostReject(e, error) ==
    /\ ex[e].pc = "awaitPost"
    /\ ex' = [ex EXCEPT ![e] = reject(ex[e], error)]
    /\ UNCHANGED <<tools, messages, lastRegistered>>

\* what the handlers of a response do when called: throw or return a promise
Thrown == [1..MaxBlocks -> {NoError} \cup HandlerErrors]

\* axios.post resolves
PostResolve(e, response, thrown) ==
    /\ ex[e].pc = "awaitPost"
    /\ response.stop_reason = "tool_use" => ex[e].calls < MaxCalls
    /\ LET after == handleResponse(ex[e], response, thrown)
       IN  /\ ex' = [ex EXCEPT ![e] = after.x]
           /\ messages' = after.messages
    /\ UNCHANGED <<tools, lastRegistered>>

\* a tool dropped from the registry once its handler has answered
HandlerResolveDropsTool(e, i, result) ==
    /\ ex[e].pc = "awaitTools"
    /\ i \in 1..Len(ex[e].promises)
    /\ ex[e].promises[i].status = "running"
    /\ LET p == ex[e].promises[i]
           after == join(ex[e], [ex[e].promises EXCEPT
                       ![i] = [p EXCEPT !.status = "done",
                                        !.turn = toolResultTurn(p.toolUse, result),
                                        !.completed = 1 + Cardinality(
                                            { k \in 1..Len(ex[e].promises) :
                                                ex[e].promises[k].status = "done" })]])
       IN  /\ ex' = [ex EXCEPT ![e] = after.x]
           /\ messages' = after.messages
           /\ tools' = SelectSeq(tools, LAMBDA t : t.key # p.toolUse.name)
    /\ UNCHANGED lastRegistered

\* the handler of invocation i resolves with result
HandlerResolve(e, i, result) ==
    /\ ex[e].pc = "awaitTools"
    /\ i \in 1..Len(ex[e].promises)
    /\ ex[e].promises[i].status = "running"
    /\ LET p == ex[e].promises[i]
           after == join(ex[e], [ex[e].promises EXCEPT
                       ![i] = [p EXCEPT !.status = "done",
                                        !.turn = toolResultTurn(p.toolUse, result),
                                        !.completed = 1 + Cardinality(
                                            { k \in 1..Len(ex[e].promises) :
                                                ex[e].promises[k].status = "done" })]])
       IN  /\ ex' = [ex EXCEPT ![e] = after.x]
           /\ messages' = after.messages
    /\ UNCHANGED <<tools, lastRegistered>>

\* a failure held back until the siblings have settled
HandlerRejectAwaitsSiblings(e, i, error) ==
    /\ ex[e].pc = "awaitTools"
    /\ i \in 1..Len(ex[e].promises)
    /\ ex[e].promises[i].status = "running"
    /\ LET p == ex[e].promises[i]
           settled == [ex[e].promises EXCEPT
                          ![i] = [p EXCEPT !.status = "failed", !.error = error]]
           after == join(ex[e], settled)
       IN  /\ ex' = [ex EXCEPT ![e] =
                        IF \E k \in 1..Len(settled) : settled[k].status = "running"
                        THEN [ex[e] EXCEPT !.promises = settled]
                        ELSE after.x]
           /\ messages' = after.messages
    /\ UNCHANGED <<tools, lastRegistered>>

\* the handler of invocation i rejects with error
HandlerReject(e, i, error) ==
    /\ ex[e].pc = "awaitTools"
    /\ i \in 1..Len(ex[e].promises)
    /\ ex[e].promises[i].status = "running"
    /\ LET p == ex[e].promises[i]
           after == join(ex[e], [ex[e].promises EXCEPT
                       ![i] = [p EXCEPT !.status = "failed", !.error = error]])
       IN  /\ ex' = [ex EXCEPT ![e] = after.x]
           /\ messages' = after.messages
    /\ UNCHANGED <<tools, lastRegistered>>

\* a handler of a rejected batch settles: the batch's promise is already
\* rejected and nobody awaits this one. (When the caller calls createMessage
\* again the handlers still running are no longer followed.)
HandlerAbandoned(e, i, status) ==
    /\ ex[e].pc = "rejected"
    /\ i \in 1..Len(ex[e].promises)
    /\ ex[e].promises[i].status = "running"
    /\ ex' = [ex EXCEPT ![e].promises[i].status = status]
    /\ UNCHANGED <<tools, messages, lastRegistered>>

Step(e) ==
    \/ \E msgs \in CallerMessages : CreateMessage(e, msgs)
    \/ \E response \in Responses, thrown \in Thrown : PostResolve(e, response, thrown)
    \/ \E error \in PostErrors : PostReject(e, error)
    \/ \E i \in 1..MaxBlocks, result \in HandlerResults : HandlerResolve(e, i, result)
    \/ \E i \in 1..MaxBlocks, error \in HandlerErrors : HandlerReject(e, i, error)
    \/ \E i \in 1..MaxBlocks, status \in {"lateDone", "lateFailed"} :
           HandlerAbandoned(e, i, status)

\* one caller, which awaits each createMessage before the next
Next ==
    \/ \E tool \in Tools : AddTool(tool)
    \/ Step(1)

Spec == Init /\ [][Next]_vars

(* ------------------ requests and handlers that complete ---------------- *)

NoneThrown == [i \in 1..MaxBlocks |-> NoError]
\* no handler throws when called, or the first one does
FairThrown ==
    { NoneThrown,
      [i \in 1..MaxBlocks |-> IF i = 1 THEN Error(<<"handler failed">>) ELSE NoError] }

\* the endpoint answers the request in flight, one way or the other
EndpointAnswers(e) ==
    \/ \E response \in Responses, thrown \in FairThrown : PostResolve(e, response, thrown)
    \/ \E error \in PostErrors : PostReject(e, error)
\* a handler the exchange awaits completes, one way or the other
HandlerSettles(e) ==
    \/ \E i \in 1..MaxBlocks, result \in HandlerResults : HandlerResolve(e, i, result)
    \/ \E i \in 1..MaxBlocks, error \in HandlerErrors : HandlerReject(e, i, error)

StepFair(e) ==
    \/ \E msgs \in CallerMessages : CreateMessage(e, msgs)
    \/ EndpointAnswers(e)
    \/ HandlerSettles(e)
    \/ \E i \in 1..MaxBlocks, status \in {"lateDone", "lateFailed"} :
           HandlerAbandoned(e, i, status)

NextFair ==
    \/ \E tool \in Tools : AddTool(tool)
    \/ StepFair(1)

\* every request is answered and every awaited handler completes: the event
\* loop runs the continuation of each await once the awaited promise settles
FairSpec ==
    /\ Init /\ [][NextFair]_vars
    /\ WF_vars(EndpointAnswers(1))
    /\ WF_vars(HandlerSettles(1))

(* ---------------- two callers that do not await each other -------------- *)

\* the user turn the second caller sends
OtherUserTurn == Turn("user", <<TextContent("Is the traffic heavy?")>>)
CallerTurn(e) == IF e = 1 THEN UserTurn ELSE OtherUserTurn

\* what the endpoint and the handlers answer to the overlapping exchanges
OverlapResponses ==
    { AnthropicResponse("tool_use", <<ToolUse1, ToolUse2>>),
      AnthropicResponse("tool_use", <<ToolUse2>>),
      AnthropicResponse("end_turn", <<Text>>) }

\* both tools of the example registered before the first createMessage
InitOverlap ==
    /\ tools = addTool(addTool(<<>>, Tool("getWeather", "Get the current weather", "weatherFunction")),
                       Tool("getTraffic", "Get the current traffic", "trafficFunction"))
    /\ messages = <<>>
    /\ ex = [e \in Exchanges |-> Idle]
    /\ lastRegistered =
          [n \in ToolNames |->
              IF n = "getWeather"
              THEN Tool("getWeather", "Get the current weather", "weatherFunction")
              ELSE IF n = "getTraffic"
              THEN Tool("getTraffic", "Get the current traffic", "trafficFunction")
              ELSE NoTool]

StepOverlap(e) ==
    \/ CreateMessage(e, <<CallerTurn(e)>>)
    \/ \E response \in OverlapResponses : PostResolve(e, response, NoneThrown)
    \/ PostReject(e, AxiosError("Network Error", Undefined))
    \/ \E i \in 1..MaxBlocks : HandlerResolve(e, i, StringValue("18"))
    \/ \E i \in 1..MaxBlocks : HandlerReject(e, i, Error(<<"handler failed">>))
    \/ \E i \in 1..MaxBlocks, status \in {"lateDone", "lateFailed"} :
           HandlerAbandoned(e, i, status)

\* createMessage called again on the same client while a call is in flight
NextOverlap == \E e \in Exchanges : StepOverlap(e)

SpecOverlap == InitOverlap /\ [][NextOverlap]_vars

(* ------------------------- reading a state ----------------------------- *)

\* the tool-invocation blocks of a response, by position in its content
InvocationsAt(response) ==
    { i \in 1..Len(response.content) : response.content[i].type = "tool_use" }
\* the last response of exchange e asked for tools
ToolUseAnswered(e) == ex[e].responses >= 1 /\ ex[e].response.stop_reason = "tool_use"
\* the last response of exchange e did not
FinalAnswered(e) == ex[e].responses >= 1 /\ ex[e].response.stop_reason # "tool_use"
\* a request was issued after the last response of exchange e
Continued(e) == ex[e].responses >= 1 /\ ex[e].calls > ex[e].responses
\* the invocations of the last response named tools registered when it came
Unregistered(e) ==
    { i \in InvocationsAt(ex[e].response) :
        ex[e].registeredAt[ex[e].response.content[i].name] = NoTool }
\* the handlers called for the last response
HandlersInvoked(e) ==
    { k \in 1..Len(ex[e].promises) : ex[e].promises[k].toolFunction # NoFunction }
IsToolResultTurn(turn) ==
    /\ turn.role = "user"
    /\ Len(turn.content) = 1
    /\ turn.content[1].type = "tool_result"

(* ------------------------------- claims -------------------------------- *)

\* C1: when the endpoint answers with a response whose stop reason is not
\* tool_use, createMessage resolves with exactly that response, no handler is
\* called for it and no further request is issued in the exchange.
C1_FinalResponseResolves ==
    \A e \in Exchanges :
        FinalAnswered(e) =>
            /\ ex[e].pc = "resolved"
            /\ ex[e].result = Resolved(ex[e].response)
            /\ HandlersInvoked(e) = {}
            /\ ex[e].calls = ex[e].responses

\* a final response that came after a tool round and holds an invocation block
C1_Witness ==
    \E e \in Exchanges :
        /\ FinalAnswered(e)
        /\ ex[e].calls = 2
        /\ InvocationsAt(ex[e].response) # {}

\* C2: for a tool_use response with N >= 1 invocation blocks all naming
\* registered tools, exactly N handlers are called, one per block and with the
\* block's input, and the new turns of the next request are exactly N user
\* turns holding one tool result each, one per invocation identifier, none of
\* them holding the assistant content of the response.
C2_OneHandlerAndOneResultPerInvocation ==
    \A e \in Exchanges :
        LET r == ex[e].response
            N == Cardinality(InvocationsAt(r))
        IN  (ToolUseAnswered(e) /\ N >= 1 /\ Unregistered(e) = {}) =>
                /\ Cardinality(HandlersInvoked(e)) = N
                /\ \A i \in InvocationsAt(r) :
                       Cardinality({ k \in HandlersInvoked(e) :
                           /\ ex[e].promises[k].toolUse = r.content[i]
                           /\ ex[e].promises[k].input = r.content[i].input
                           /\ ex[e].promises[k].toolFunction =
                                  ex[e].registeredAt[r.content[i].name].toolFunction }) = 1
                /\ Continued(e) =>
                       /\ Len(ex[e].newTurns) = N
                       /\ \A k \in 1..Len(ex[e].newTurns) :
                              /\ IsToolResultTurn(ex[e].newTurns[k])
                              /\ ex[e].newTurns[k].content # r.content
                       /\ \A i \in InvocationsAt(r) :
                              Cardinality({ k \in 1..Len(ex[e].newTurns) :
                                  ex[e].newTurns[k].content[1].tool_use_id = r.content[i].id }) = 1

\* the continuation request after a response with two invocations and a text block
C2_Witness ==
    \E e \in Exchanges :
        /\ ToolUseAnswered(e)
        /\ Continued(e)
        /\ Cardinality(InvocationsAt(ex[e].response)) = 2
        /\ Len(ex[e].response.content) = 3

\* C3: a createMessage call whose argument is one turn of role user builds its
\* request from a history that is exactly that turn, whatever was retained.
C3_SingleUserTurnResets ==
    \A e \in Exchanges :
        (ex[e].calls >= 1 /\ Len(ex[e].newTurns) = 1 /\ ex[e].newTurns[1].role = "user") =>
            /\ Len(ex[e].request.messages) = 1
            /\ ex[e].request.messages = ex[e].newTurns

\* such a call made by the caller while two turns were retained
C3_Witness ==
    \E e \in Exchanges :
        /\ ex[e].calls = 1
        /\ ex[e].newTurns = <<UserTurn>>
        /\ Len(ex[e].historyBefore) = 2

\* C4: within an exchange the history is append-only: the request that
\* continues after a tool_use response with N >= 1 invocations carries the
\* history of the previous request followed by the N tool-result turns.
C4_ContinuationAppends ==
    \A e \in Exchanges :
        (ToolUseAnswered(e) /\ Continued(e) /\ InvocationsAt(ex[e].response) # {}) =>
            /\ Len(ex[e].newTurns) = Cardinality(InvocationsAt(ex[e].response))
            /\ ex[e].request.messages = ex[e].previousMessages \o ex[e].newTurns

\* the first unregistered invocation of the last response
FirstUnregistered(e) ==
    ex[e].response.content[
        CHOOSE i \in Unregistered(e) : \A j \in Unregistered(e) : i <= j]
UnknownTool(name) == Error(<<"Unknown tool: ", name>>)
IsEndpointError(error) == Len(error.message) >= 1 /\ error.message[1] = "Anthropic API error: "
\* the handlers of the last batch that threw when called
Threw(e) == { k \in 1..Len(ex[e].promises) : ex[e].promises[k].status = "threw" }
\* the handlers of the last batch that failed and were observed to
Failed(e) == { k \in 1..Len(ex[e].promises) : ex[e].promises[k].status \in {"threw", "failed"} }

C6_HandlerFailureRejects ==
    \A e \in Exchanges :
        (ToolUseAnswered(e) /\ Unregistered(e) = {} /\ Failed(e) # {}) =>
            /\ ex[e].pc = "rejected"
            /\ \E k \in Failed(e) : ex[e].result = RejectedWith(ex[e].promises[k].error)
            /\ ~IsEndpointError(ex[e].result.error)
            /\ ex[e].calls = ex[e].responses
            /\ messages = ex[e].request.messages

\* C7: the continuation request is issued only after every handler of the
\* response has completed: no handler of the batch is running once it is sent.
C7_JoinBeforeContinuation ==
    \A e \in Exchanges :
        (ToolUseAnswered(e) /\ Continued(e)) =>
            \A k \in 1..Len(ex[e].promises) : ex[e].promises[k].status = "done"

\* the second handler has completed before the first and nothing was sent
C7_Witness ==
    \E e \in Exchanges :
        /\ ex[e].pc = "awaitTools"
        /\ Len(ex[e].promises) = 2
        /\ ex[e].promises[1].status = "running"
        /\ ex[e].promises[2].status = "done"
        /\ ~Continued(e)

\* C8: every tool_use response causes one subsequent request whatever the
\* number of its invocations: an exchange that resolved after k tool_use
\* responses issued k + 1 requests, and two invocations give one request
\* carrying both results.
C8_OneRequestPerToolUseResponse ==
    \A e \in Exchanges :
        /\ ex[e].calls <= ex[e].toolUseResponses + 1
        /\ ex[e].pc = "resolved" => ex[e].calls = ex[e].toolUseResponses + 1
        /\ (ToolUseAnswered(e) /\ Continued(e)) =>
               /\ ex[e].calls = ex[e].responses + 1
               /\ Len(ex[e].newTurns) = Cardinality(InvocationsAt(ex[e].response))

\* an exchange resolved after one tool_use response with two invocations
C8_Witness ==
    \E e \in Exchanges :
        /\ ex[e].pc = "resolved"
        /\ ex[e].toolUseResponses = 1
        /\ Len(ex[e].newTurns) = 2

\* C9: an exchange resolves only on a final response; a tool_use response
\* whose handlers all succeed (also one without invocations) is followed by
\* another request, the exchange neither resolving nor rejecting on it (it can
\* only reject later, when that request fails).
C9_ResolvesOnlyOnFinal ==
    \A e \in Exchanges :
        /\ ex[e].pc = "resolved" => FinalAnswered(e)
        /\ ( /\ ToolUseAnswered(e)
             /\ \A k \in 1..Len(ex[e].promises) : ex[e].promises[k].status = "done" ) =>
               /\ ex[e].calls = ex[e].responses + 1
               /\ ex[e].pc \in {"awaitPost", "rejected"}
               /\ ex[e].pc = "rejected" => IsEndpointError(ex[e].result.error)

\* as many requests as the endpoint is allowed to ask for, the last one after a
\* response without invocations
C9_Witness ==
    \E e \in Exchanges :
        /\ ex[e].pc = "awaitPost"
        /\ ex[e].calls = MaxCalls
        /\ ToolUseAnswered(e)
        /\ InvocationsAt(ex[e].response) = {}

\* C10: the registry holds one definition per name, the last one registered
\* under it, and an invocation runs the handler of the last registration.
C10_LastRegistrationWins ==
    /\ \A i, j \in 1..Len(tools) : tools[i].key = tools[j].key => i = j
    /\ \A i \in 1..Len(tools) :
           /\ lastRegistered[tools[i].key] # NoTool
           /\ tools[i].value.schema = lastRegistered[tools[i].key].schema
           /\ tools[i].value.toolFunction = lastRegistered[tools[i].key].toolFunction
           /\ tools[i].value.schema.name = tools[i].key
    /\ \A n \in ToolNames :
           lastRegistered[n] # NoTool => \E i \in 1..Len(tools) : tools[i].key = n
    /\ \A e \in Exchanges : \A k \in HandlersInvoked(e) :
           ex[e].promises[k].toolFunction =
               ex[e].registeredAt[ex[e].promises[k].toolUse.name].toolFunction

\* getWeather was registered again between a request and its response: the
\* request lists the first version, the invocation ran the second handler
C10_Witness ==
    \E e \in Exchanges : \E k \in HandlersInvoked(e) :
        /\ ex[e].promises[k].toolUse.name = "getWeather"
        /\ ex[e].promises[k].toolFunction = "trafficFunction"
        /\ \E i \in 1..Len(ex[e].request.tools) :
               ex[e].request.tools[i] = [name |-> "getWeather", description |-> "Get the current weather"]
        /\ ex[e].calls = 1

\* C11: createMessage and all it triggers (requests, fan-out, continuation,
\* success or failure) leave the tool registry as it is: every step of an
\* exchange keeps this.tools.
C11_RegistryUntouched ==
    [][ \A e \in Exchanges : ex'[e] # ex[e] => tools' = tools ]_vars

\* an exchange that ran two handlers and resolved, both tools still registered
C11_Witness ==
    \E e \in Exchanges :
        /\ ex[e].pc = "resolved"
        /\ ex[e].toolUseResponses = 1
        /\ Len(ex[e].newTurns) = 2
        /\ Len(tools) = 2

\* C12: a tool_use response without any invocation block makes the exchange
\* reject with an EndpointError, and no further request is issued.
C12_NoInvocationRejects ==
    \A e \in Exchanges :
        (ToolUseAnswered(e) /\ InvocationsAt(ex[e].response) = {}) =>
            /\ ex[e].pc = "rejected"
            /\ IsEndpointError(ex[e].result.error)
            /\ ex[e].calls = ex[e].responses

\* C13: no request is sent twice and no failure is retried: when a request
\* fails, at the first call or at a continuation, the exchange rejects with
\* an EndpointError and nothing more is sent or run for it.
C13_EndpointFailureRejects ==
    \A e \in Exchanges :
        /\ ex[e].calls <= ex[e].responses + 1
        /\ (ex[e].pc # "awaitPost" /\ ex[e].calls = ex[e].responses + 1) =>
               /\ ex[e].pc = "rejected"
               /\ IsEndpointError(ex[e].result.error)
               /\ Len(ex[e].result.error.message) = 2
               /\ \A k \in 1..Len(ex[e].promises) : ex[e].promises[k].status = "done"

\* the continuation request failed, with a message in the endpoint's answer
C13_Witness ==
    \E e \in Exchanges :
        /\ ex[e].pc = "rejected"
        /\ ex[e].calls = 2
        /\ ex[e].responses = 1
        /\ ex[e].result.error = Error(<<"Anthropic API error: ", "Overloaded">>)

\* C14: overlapping createMessage calls share one history: every request
\* is built from this.messages as the client holds it when the call is
\* entered, whichever exchange wrote it, so an exchange can send the other's
\* turns and lose its own.
C14_HistoryShared ==
    \A e \in Exchanges :
        ex[e].calls >= 1 =>
            ex[e].request.messages =
                IF Len(ex[e].newTurns) = 1 /\ ex[e].newTurns[1].role = "user"
                THEN ex[e].newTurns
                ELSE ex[e].historyBefore \o ex[e].newTurns

\* the continuation request of one exchange holds the other caller's user
\* turn and no longer its own, which the other call's reset discarded
C14_Witness ==
    \E e \in Exchanges, o \in Exchanges :
        /\ o # e
        /\ Continued(e)
        /\ Len(ex[e].newTurns) = 2
        /\ ex[e].previousMessages = <<CallerTurn(e)>>
        /\ ex[e].request.messages = <<CallerTurn(o)>> \o ex[e].newTurns
        /\ InFlight(o)

\* the error the caller gets is the given failure, as it is or, for an
\* AxiosError, under the label the catch block of createMessage gives it
Surfaces(surfaced, failure) ==
    \/ surfaced = failure
    \/ /\ failure.axios
       /\ surfaced = Error(<<"Anthropic API error: ", failure.message[1]>>)

\* C15: the exchange rejects at the first handler failure, with that failure,
\* while siblings may still be running; the siblings settle later unawaited,
\* and whether they then succeed or fail the rejection stays that of the first
\* failure, nothing is appended to the history and no request is sent.
C15_FirstFailureRejects ==
    \A e \in Exchanges :
        /\ ex[e].pc = "awaitTools" => Rejected(ex[e].promises) = {}
        /\ \A f \in 1..Len(ex[e].promises) :
               ex[e].promises[f].status = "failed" =>
                   /\ ex[e].pc = "rejected"
                   /\ \A k \in 1..Len(ex[e].promises) :
                          k # f => ex[e].promises[k].status
                                       \in {"running", "done", "lateDone", "lateFailed"}
                   /\ Surfaces(ex[e].result.error, ex[e].promises[f].error)
                   /\ ex[e].calls = ex[e].responses
                   /\ messages = ex[e].request.messages

\* the second handler failed first and the exchange rejected with its
\* failure; the first handler failed afterwards
C15_Witness ==
    \E e \in Exchanges :
        /\ ex[e].pc = "rejected"
        /\ Len(ex[e].promises) = 2
        /\ ex[e].promises[1].status = "lateFailed"
        /\ ex[e].promises[2].status = "failed"
        /\ ex[e].result = RejectedWith(ex[e].promises[2].error)

\* an exchange is rejected only for a failed request, an unregistered tool or
\* a failed handler
ErrorOccurred(e) ==
    \/ ex[e].calls = ex[e].responses + 1
    \/ Rejected(ex[e].promises) # {}

\* the exchange has settled as C16 says: resolved with the final response,
\* or rejected after an error
SettledOrFailed(e) ==
    \/ /\ ex[e].pc = "resolved"
       /\ ex[e].response.stop_reason # "tool_use"
       /\ ex[e].result = Resolved(ex[e].response)
    \/ /\ ex[e].pc = "rejected"
       /\ ErrorOccurred(e)

\* C16: when every request is answered and every handler completes, an
\* exchange in flight eventually settles, and unless an error occurred it
\* resolves, with the final response, after any number of tool_use answers,
\* those without invocation blocks included.
C16_EventuallyResolves ==
    \A e \in Exchanges : InFlight(e) ~> SettledOrFailed(e)

\* resolved after a round trip whose tool_use response held no invocation
C16_Witness ==
    \E e \in Exchanges :
        /\ ex[e].pc = "resolved"
        /\ ex[e].calls = 2
        /\ ex[e].toolUseResponses = 1
        /\ ex[e].newTurns = <<>>
        /\ ex[e].result = Resolved(ex[e].response)

\* the k-th tool_use block of a response
KthInvocation(response, k) ==
    response.content[
        CHOOSE i \in InvocationsAt(response) :
            Cardinality({ j \in InvocationsAt(response) : j <= i }) = k ]

\* C17: the turns of a continuation request are the tool results in the
\* order of the tool_use blocks of the response, in whatever order the
\* handlers completed: the k-th new turn answers the k-th block.
C17_ResultsInBlockOrder ==
    \A e \in Exchanges :
        (ToolUseAnswered(e) /\ Continued(e)) =>
            /\ Len(ex[e].newTurns) = Cardinality(InvocationsAt(ex[e].response))
            /\ \A k \in 1..Len(ex[e].newTurns) :
                   /\ IsToolResultTurn(ex[e].newTurns[k])
                   /\ ex[e].newTurns[k].content[1].tool_use_id =
                          KthInvocation(ex[e].response, k).id

\* the handler of the second block completed first, and the continuation
\* was sent
C17_Witness ==
    \E e \in Exchanges :
        /\ ToolUseAnswered(e)
        /\ Continued(e)
        /\ Len(ex[e].promises) = 2
        /\ ex[e].promises[2].completed = 1
        /\ ex[e].promises[1].completed = 2
        /\ ex[e].newTurns[1].content[1].tool_use_id = ex[e].promises[1].toolUse.id

\* C18: when a tool_use response names an unregistered tool, the handlers of
\* its invocations of registered tools are called all the same, before as
\* after the unregistered one in block order; the exchange rejects, no result
\* is appended to the history and no request is sent.
C18_SiblingsOfUnknownInvoked ==
    \A e \in Exchanges :
        (ToolUseAnswered(e) /\ Unregistered(e) # {}) =>
            /\ Len(ex[e].promises) = Cardinality(InvocationsAt(ex[e].response))
            /\ \A k \in 1..Len(ex[e].promises) :
                   LET toolUse == KthInvocation(ex[e].response, k)
                       tool == ex[e].registeredAt[toolUse.name]
                   IN  tool # NoTool =>
                           /\ ex[e].promises[k].toolFunction = tool.toolFunction
                           /\ ex[e].promises[k].input = toolUse.input
            /\ ex[e].pc = "rejected"
            /\ ex[e].calls = ex[e].responses
            /\ messages = ex[e].request.messages

\* the first block names an unregistered tool; the handler of the second was
\* called and has completed since, and the exchange is rejected
C18_Witness ==
    \E e \in Exchanges :
        /\ ToolUseAnswered(e)
        /\ Len(ex[e].promises) = 2
        /\ ex[e].promises[1].status = "unknown"
        /\ ex[e].promises[2].toolFunction = "trafficFunction"
        /\ ex[e].promises[2].status = "lateDone"
        /\ ex[e].result = RejectedWith(UnknownTool("getWeather"))

\* C19: a rejected exchange leaves this.messages as its last request had
\* them, whether the request, a lookup or a handler failed; from then on the
\* history changes only by a new createMessage call, which empties it first
\* only when it is given a single user turn.
C19_FailureKeepsHistory ==
    [][ \A e \in Exchanges :
          /\ ex'[e].pc = "rejected" => messages' = ex'[e].request.messages
          /\ (ex[e].pc = "rejected" /\ messages' # messages) =>
                 /\ ex'[e].pc = "awaitPost"
                 /\ ex'[e].calls = 1
                 /\ messages' =
                        IF Len(ex'[e].newTurns) = 1 /\ ex'[e].newTurns[1].role = "user"
                        THEN ex'[e].newTurns
                        ELSE messages \o ex'[e].newTurns
      ]_vars

\* the continuation request failed: the two tool results appended for it are
\* still in the history
C19_Witness ==
    \E e \in Exchanges :
        /\ ex[e].pc = "rejected"
        /\ ex[e].calls = 2
        /\ ex[e].responses = 1
        /\ Len(ex[e].newTurns) = 2
        /\ messages = ex[e].previousMessages \o ex[e].newTurns

\* C20: the stop reason alone decides whether tools run. The tool_use blocks
\* of a response with another stop reason are neither looked up nor run, be
\* their tools registered or not, and the response is what createMessage
\* resolves with; those of a tool_use response are all taken.
C20_StopReasonDecides ==
    \A e \in Exchanges :
        LET r == ex[e].response
        IN  /\ (FinalAnswered(e) /\ InvocationsAt(r) # {}) =>
                   /\ ex[e].promises = <<>>
                   /\ ex[e].pc = "resolved"
                   /\ ex[e].result = Resolved(r)
                   /\ ex[e].calls = ex[e].responses
            /\ (ToolUseAnswered(e) /\ ~Continued(e)) =>
                   Len(ex[e].promises) = Cardinality(InvocationsAt(r))

\* a max_tokens response with a tool_use block naming an unregistered tool,
\* returned as the answer
C20_Witness ==
    \E e \in Exchanges :
        /\ ex[e].response.stop_reason = "max_tokens"
        /\ Unregistered(e) # {}
        /\ ex[e].pc = "resolved"
        /\ ex[e].result = Resolved(ex[e].response)

====
